---------------------------- MODULE Spec2Model ----------------------------
(***************************************************************************)
(* A model of code/main.py: the fine-tuning pipeline of the repository.    *)
(*                                                                         *)
(* The script is single threaded.  `pc' is the statement of __main__ the   *)
(* process is about to execute; an unhandled exception ends the process    *)
(* ("crashed", with the exception recorded in `error').  Library calls     *)
(* (pandas, scikit-learn, transformers.Trainer, wandb) are modelled by the *)
(* behaviour the arguments passed in main.py select.                       *)
(***************************************************************************)
EXTENDS Integers, Sequences, FiniteSets, TLC

VARIABLES
    pc,                 \* position in __main__
    error,              \* the unhandled exception, [kind, where] or NoError
    wandb_run,          \* "none" | "open" | "finished"
    train_file_name,    \* CFG["data"]["train_name"]
    files,              \* names N such that ../data/N.csv exists
    env_file,           \* ../setup/.env: "ok" | "missing" | "unreadable"
    hf_token,           \* os.getenv("HUGGINGFACE_TOKEN"): TRUE when set
    local_train,        \* os.path.exists(train_path) in check_dataset:
                        \* "unchecked" | "exists" | "absent"
    download,           \* load_dataset: "no" | "done" | "failed"
    train_csv,          \* content of the training table
    test_size,          \* CFG["data"]["test_size"], a fraction <<num, den>>
    split,              \* <<len(data_train), len(data_valid)>> or None
    phase,              \* Trainer: "Idle","Training","Evaluating",...
    epoch,              \* the epoch the Trainer is in (0 before the first)
    eval_f1,            \* eval_f1 of the epochs evaluated so far, in order
    checkpoints,        \* epochs whose checkpoint-* directory exists
    best_metric,        \* TrainerState.best_metric
    best_model_checkpoint, \* TrainerState.best_model_checkpoint
    model_weights,      \* epoch whose weights `model' holds (0: pretrained)
    trained_model,      \* what train() returned, or None
    eval_pred,          \* validation (prediction matrix, labels)
    final_metrics,      \* compute_metrics_detailed(eval_pred), or None
    dataset_test,       \* content of ../data/test.csv
    logits,             \* the model's logits for every text
    output_csv          \* content of output.csv, or None

vars == <<pc, error, wandb_run, train_file_name, files, env_file, hf_token,
          local_train, download, train_csv, test_size, split, phase, epoch,
          eval_f1, checkpoints, best_metric, best_model_checkpoint,
          model_weights, trained_model, eval_pred, final_metrics,
          dataset_test, logits, output_csv>>

envVars == <<train_file_name, env_file, train_csv, test_size, eval_pred,
             dataset_test, logits>>
trainerVars == <<phase, epoch, eval_f1, checkpoints, best_metric,
                 best_model_checkpoint, model_weights>>

\* an optional value is a sequence of length 0 or 1
None == <<>>
Some(x) == <<x>>
Get(o) == o[1]
NoError == [kind |-> "none", where |-> "none"]

(***************************************************************************)
(* Bounds of the model.                                                    *)
(***************************************************************************)
MaxScore == 2        \* eval_f1 takes the levels 0..MaxScore
MaxRows == 4         \* rows of the training table
MaxTestRows == 3     \* rows of test.csv
MaxLogit == 1        \* logits take the values 0..MaxLogit
MaxClass == 2        \* label values 0..MaxClass in the metric inputs
MaxEvalRows == 2     \* rows of the validation set in the metric inputs

(***************************************************************************)
(* Program constants.                                                      *)
(***************************************************************************)
num_train_epochs == 2
save_total_limit == 2
num_labels == 7

Max(a, b) == IF a >= b THEN a ELSE b
Range(s) == {s[i] : i \in DOMAIN s}


(***************************************************************************)
(* Exceptions.  Raise ends the process: nothing in main.py catches.        *)
(***************************************************************************)
Raise(kind, where) ==
    /\ pc' = "crashed"
    /\ error' = [kind |-> kind, where |-> where]

(***************************************************************************)
(* wandb.init(...), main.py 319-323.                                       *)
(***************************************************************************)
WandbInit ==
    /\ pc = "wandb_init"
    /\ \/ /\ wandb_run' = "open"
          /\ pc' = "load_env_file"
          /\ UNCHANGED error
       \/ /\ Raise("CommError", "wandb_init")
          /\ UNCHANGED wandb_run
    /\ UNCHANGED <<files, hf_token, local_train, download, split,
                   trained_model, final_metrics, output_csv>>
    /\ UNCHANGED <<envVars, trainerVars>>

(***************************************************************************)
(* load_env_file("../setup/.env") and os.getenv, main.py 240-250, 326-328. *)
(* load_dotenv returns False for a missing file; the function turns that   *)
(* into FileNotFoundError and catches it; any other exception is caught by *)
(* `except Exception'.  The token is set only by a load that succeeded (or *)
(* was already in the process environment).                                *)
(***************************************************************************)
\* variant: without the two except clauses
load_env_file_uncaught(f) ==
    [raised |-> (f # "ok"), loaded |-> (f = "ok")]

load_env_file(f) ==
    [raised |-> FALSE, loaded |-> (f = "ok")]

LoadEnvFile ==
    /\ pc = "load_env_file"
    /\ IF load_env_file(env_file).raised
       THEN /\ Raise("FileNotFoundError", "load_env_file")
            /\ UNCHANGED hf_token
       ELSE /\ hf_token' = (hf_token \/ load_env_file(env_file).loaded)
            /\ pc' = "check_dataset"
            /\ UNCHANGED error
    /\ UNCHANGED <<wandb_run, files, local_train, download, split,
                   trained_model, final_metrics, output_csv>>
    /\ UNCHANGED <<envVars, trainerVars>>

(***************************************************************************)
(* check_dataset(hf_organization, hf_token, train_file_name),              *)
(* main.py 253-282.  train_path is ../data/train.csv whatever              *)
(* train_file_name is; the download is written to train_path.              *)
(***************************************************************************)
check_dataset_path == "train"

CheckDataset ==
    /\ pc = "check_dataset"
    /\ local_train' = IF check_dataset_path \in files THEN "exists"
                       ELSE "absent"
    /\ IF check_dataset_path \notin files
       THEN \/ /\ download' = "done"
               /\ files' = files \cup {check_dataset_path}
               /\ pc' = "load_model"
               /\ UNCHANGED error
            \/ /\ download' = "failed"
               /\ Raise("DatasetNotFoundError", "check_dataset")
               /\ UNCHANGED files
       ELSE /\ pc' = "load_model"
            /\ UNCHANGED <<download, files, error>>
    /\ UNCHANGED <<wandb_run, hf_token, split, trained_model, final_metrics,
                   output_csv>>
    /\ UNCHANGED <<envVars, trainerVars>>

(***************************************************************************)
(* seed_fix, AutoTokenizer / AutoModel .from_pretrained, main.py 340-349.  *)
(***************************************************************************)
LoadModel ==
    /\ pc = "load_model"
    /\ \/ /\ pc' = "data_setting"
          /\ UNCHANGED error
       \/ Raise("OSError", "from_pretrained")
    /\ UNCHANGED <<wandb_run, files, hf_token, local_train, download, split,
                   trained_model, final_metrics, output_csv>>
    /\ UNCHANGED <<envVars, trainerVars>>

(***************************************************************************)
(* data_setting, main.py 71-84, and BERTDataset.__init__, 25-40.           *)
(* train_test_split(data, test_size=f): n_test = ceil(f * n),              *)
(* n_train = n - n_test, ValueError when the train set would be empty.     *)
(* BERTDataset reads data["text"] then data["target"]: KeyError.           *)
(***************************************************************************)
CeilDiv(a, b) == (a + b - 1) \div b

n_test(data, ts) == CeilDiv(ts[1] * data.n, ts[2])
n_train(data, ts) == data.n - n_test(data, ts)

train_test_split(data, ts) ==
    IF n_train(data, ts) = 0 THEN "ValueError" ELSE "ok"

BERTDataset(data) ==
    IF ~data.has_text \/ ~data.has_target THEN "KeyError" ELSE "ok"

\* variant: the columns are read before the split
data_setting_columns_first(data, ts) ==
    IF BERTDataset(data) # "ok" THEN BERTDataset(data)
    ELSE train_test_split(data, ts)

data_setting(data, ts) ==
    IF train_test_split(data, ts) # "ok" THEN train_test_split(data, ts)
    ELSE BERTDataset(data)

DataSetting ==
    /\ pc = "data_setting"
    /\ IF train_file_name \notin files
       THEN /\ Raise("FileNotFoundError", "data_setting")
            /\ UNCHANGED split
       ELSE IF data_setting(train_csv, test_size) # "ok"
       THEN /\ Raise(data_setting(train_csv, test_size), "data_setting")
            /\ UNCHANGED split
       ELSE /\ split' = Some(<<n_train(train_csv, test_size),
                               n_test(train_csv, test_size)>>)
            /\ pc' = "train"
            /\ UNCHANGED error
    /\ UNCHANGED <<wandb_run, files, hf_token, local_train, download,
                   trained_model, final_metrics, output_csv>>
    /\ UNCHANGED <<envVars, trainerVars>>

(***************************************************************************)
(* train(), main.py 127-187: TrainingArguments select, in the Trainer,     *)
(* num_train_epochs epochs, each followed by an evaluation                 *)
(* (evaluation_strategy="epoch") and a checkpoint (save_strategy="epoch"), *)
(* at most save_total_limit checkpoints kept, the best one by eval_f1      *)
(* (greater_is_better) loaded back at the end (load_best_model_at_end).    *)
(***************************************************************************)
Epochs == 1..num_train_epochs
Scores == 0..MaxScore

TrainBegin ==
    /\ pc = "train"
    /\ phase = "Idle"
    /\ phase' = "Training"
    /\ epoch' = 1
    /\ UNCHANGED <<pc, error, wandb_run, files, hf_token, local_train,
                   download, split, trained_model, final_metrics, output_csv>>
    /\ UNCHANGED <<eval_f1, checkpoints, best_metric, best_model_checkpoint,
                   model_weights>>
    /\ UNCHANGED envVars

\* variant: evaluation_strategy="no", the epoch is saved unevaluated
TrainEpochNoEval ==
    /\ pc = "train"
    /\ phase = "Training"
    /\ model_weights' = epoch
    /\ eval_f1' = Append(eval_f1, 0)
    /\ phase' = "Checkpointing"
    /\ UNCHANGED <<pc, error, wandb_run, files, hf_token, local_train,
                   download, split, trained_model, final_metrics, output_csv>>
    /\ UNCHANGED <<epoch, checkpoints, best_metric, best_model_checkpoint>>
    /\ UNCHANGED envVars

\* one epoch of optimizer steps: the model now holds this epoch's weights
TrainEpoch ==
    /\ pc = "train"
    /\ phase = "Training"
    /\ model_weights' = epoch
    /\ phase' = "Evaluating"
    /\ UNCHANGED <<pc, error, wandb_run, files, hf_token, local_train,
                   download, split, trained_model, final_metrics, output_csv>>
    /\ UNCHANGED <<epoch, eval_f1, checkpoints, best_metric,
                   best_model_checkpoint>>
    /\ UNCHANGED envVars

\* the validation pass; compute_metrics gives this epoch's eval_f1
EvaluateEpoch ==
    /\ pc = "train"
    /\ phase = "Evaluating"
    /\ \E s \in Scores : eval_f1' = Append(eval_f1, s)
    /\ phase' = "Checkpointing"
    /\ UNCHANGED <<pc, error, wandb_run, files, hf_token, local_train,
                   download, split, trained_model, final_metrics, output_csv>>
    /\ UNCHANGED <<epoch, checkpoints, best_metric, best_model_checkpoint,
                   model_weights>>
    /\ UNCHANGED envVars

\* greater_is_better=True: np.greater, a strict comparison
is_better(metric, best) == best = None \/ metric > Get(best)

RECURSIVE SortedSeq(_)
SortedSeq(S) ==
    IF S = {} THEN <<>>
    ELSE LET m == CHOOSE x \in S : \A y \in S : x <= y
         IN <<m>> \o SortedSeq(S \ {m})

Without(s, x) == SelectSeq(s, LAMBDA y : y # x)

\* Trainer._sorted_checkpoints: by step, the best one moved to the last
\* but one place so that the rotation does not delete it
sorted_checkpoints(cps, best) ==
    LET byStep == SortedSeq(cps)
        n == Len(byStep)
        rest == Without(byStep, Get(best))
    IN IF best # None /\ Get(best) \in cps /\ n >= 2
          /\ (CHOOSE i \in 1..n : byStep[i] = Get(best)) < n - 1
       THEN SubSeq(rest, 1, n - 2) \o best \o SubSeq(rest, n - 1, n - 1)
       ELSE byStep

\* variant: save_total_limit=1
rotate_checkpoints_limit_1(cps, best) ==
    LET sorted == sorted_checkpoints(cps, best)
        n == Len(sorted)
        limit == IF best # None /\ sorted[n] # Get(best) THEN 2 ELSE 1
        ndel == Max(0, n - limit)
    IN IF n <= 1 THEN cps
       ELSE cps \ {sorted[i] : i \in 1..ndel}

\* Trainer._rotate_checkpoints under save_total_limit
rotate_checkpoints(cps, best) ==
    LET sorted == sorted_checkpoints(cps, best)
        n == Len(sorted)
        limit == IF best # None /\ save_total_limit = 1
                    /\ sorted[n] # Get(best)
                 THEN 2 ELSE save_total_limit
        ndel == Max(0, n - limit)
    IN IF n <= save_total_limit THEN cps
       ELSE cps \ {sorted[i] : i \in 1..ndel}

SaveCheckpoint ==
    /\ pc = "train"
    /\ phase = "Checkpointing"
    /\ LET better == is_better(eval_f1[epoch], best_metric)
           best == IF better THEN Some(epoch) ELSE best_model_checkpoint
       IN /\ best_metric' = IF better THEN Some(eval_f1[epoch])
                             ELSE best_metric
          /\ best_model_checkpoint' = best
          /\ checkpoints' = rotate_checkpoints(checkpoints \cup {epoch}, best)
    /\ IF epoch < num_train_epochs
       THEN /\ epoch' = epoch + 1
            /\ phase' = "Training"
       ELSE /\ phase' = "Selecting"
            /\ UNCHANGED epoch
    /\ UNCHANGED <<pc, error, wandb_run, files, hf_token, local_train,
                   download, split, trained_model, final_metrics, output_csv>>
    /\ UNCHANGED <<eval_f1, model_weights>>
    /\ UNCHANGED envVars

\* variant: load_best_model_at_end=False
load_last_model(weights, best) == weights

\* load_best_model_at_end=True: Trainer._load_best_model
load_best_model(weights, best) == IF best # None THEN Get(best) ELSE weights

LoadBestModel ==
    /\ pc = "train"
    /\ phase = "Selecting"
    /\ model_weights' = load_best_model(model_weights, best_model_checkpoint)
    /\ phase' = "Done"
    /\ UNCHANGED <<pc, error, wandb_run, files, hf_token, local_train,
                   download, split, trained_model, final_metrics, output_csv>>
    /\ UNCHANGED <<epoch, eval_f1, checkpoints, best_metric,
                   best_model_checkpoint>>
    /\ UNCHANGED envVars

\* an exception inside an epoch (CUDA out of memory, a full disk, ...):
\* trainer.train() is called, at main.py 178, outside any try
InEpoch == phase \in {"Training", "Evaluating", "Checkpointing"}

\* variant: train() catches the exception and returns the model as it is
EpochFailsCaught ==
    /\ pc = "train"
    /\ InEpoch
    /\ error' = [kind |-> "RuntimeError", where |-> "trainer.train"]
    /\ trained_model' = Some(model_weights)
    /\ pc' = "evaluating"
    /\ UNCHANGED <<wandb_run, files, hf_token, local_train, download, split,
                   final_metrics, output_csv>>
    /\ UNCHANGED <<envVars, trainerVars>>

EpochFails ==
    /\ pc = "train"
    /\ InEpoch
    /\ Raise("RuntimeError", "trainer.train")
    /\ UNCHANGED <<wandb_run, files, hf_token, local_train, download, split,
                   trained_model, final_metrics, output_csv>>
    /\ UNCHANGED <<envVars, trainerVars>>

(***************************************************************************)
(* Metric values are exact fractions <<num, den>> in lowest terms.         *)
(***************************************************************************)
RECURSIVE GCD(_, _)
GCD(a, b) == IF b = 0 THEN a ELSE GCD(b, a % b)

Frac(n, d) == IF n = 0 THEN <<0, 1>> ELSE <<n \div GCD(n, d), d \div GCD(n, d)>>
FracAdd(x, y) == Frac(x[1] * y[2] + y[1] * x[2], x[2] * y[2])
FracLess(x, y) == x[1] * y[2] < y[1] * x[2]

RECURSIVE FracSum(_)
FracSum(s) == IF s = <<>> THEN <<0, 1>> ELSE FracAdd(Head(s), FracSum(Tail(s)))

\* np.argmax / torch.argmax of one row: the first index of the largest value
argmax(row) ==
    CHOOSE c \in DOMAIN row :
        \A d \in DOMAIN row : row[d] <= row[c] /\ (row[d] = row[c] => c <= d)

Count(S) == Cardinality(S)

\* sklearn.metrics.accuracy_score over the rows in idx (non-empty)
accuracy_score(labels, preds, idx) ==
    Frac(Count({i \in idx : labels[i] = preds[i]}), Count(idx))

\* F1 of class c, c positive and every other class negative; 0 when undefined
f1_of_class(labels, preds, c) ==
    LET tp == Count({i \in DOMAIN labels : labels[i] = c /\ preds[i] = c})
        fp == Count({i \in DOMAIN labels : labels[i] # c /\ preds[i] = c})
        fn == Count({i \in DOMAIN labels : labels[i] = c /\ preds[i] # c})
    IN IF tp = 0 THEN <<0, 1>> ELSE Frac(2 * tp, 2 * tp + fp + fn)

\* f1_score(labels, predictions, average=None): one entry per class of
\* unique_labels(y_true, y_pred), the sorted union of both vectors
present_labels(labels, preds) == SortedSeq(Range(labels) \cup Range(preds))

f1_score_none(labels, preds) ==
    LET cls == present_labels(labels, preds)
    IN [i \in 1..Len(cls) |-> f1_of_class(labels, preds, cls[i])]

\* f1_score(labels, predictions, average='macro')
f1_score_macro(labels, preds) ==
    LET per == f1_score_none(labels, preds)
        total == FracSum(per)
    IN Frac(total[1], total[2] * Len(per))

\* compute_metrics_detailed, main.py 96-123.  Keys are <<name, class>>,
\* class -1 for the two overall metrics.
compute_metrics_detailed(pred) ==
    LET labels == pred.labels
        predictions == [i \in DOMAIN pred.predictions |->
                            argmax(pred.predictions[i])]
        f1_per_class == f1_score_none(labels, predictions)
        unique_labels == SortedSeq(Range(labels))
        keys == {<<"accuracy", -1>>, <<"f1", -1>>}
                \cup {<<"f1_class", unique_labels[i]>> :
                          i \in DOMAIN unique_labels}
                \cup {<<"accuracy_class", unique_labels[i]>> :
                          i \in DOMAIN unique_labels}
        index(c) == CHOOSE i \in DOMAIN unique_labels : unique_labels[i] = c
    IN [k \in keys |->
          IF k[1] = "accuracy" THEN
              accuracy_score(labels, predictions, DOMAIN labels)
          ELSE IF k[1] = "f1" THEN f1_score_macro(labels, predictions)
          ELSE IF k[1] = "f1_class" THEN f1_per_class[index(k[2])]
          ELSE accuracy_score(labels, predictions,
                              {i \in DOMAIN labels : labels[i] = k[2]})]

\* after trainer.train(): the detailed validation pass and `return model',
\* main.py 181-187
FinalEvaluate ==
    /\ pc = "train"
    /\ phase = "Done"
    /\ final_metrics' = Some(compute_metrics_detailed(eval_pred))
    /\ trained_model' = Some(model_weights)
    /\ pc' = "evaluating"
    /\ UNCHANGED <<error, wandb_run, files, hf_token, local_train, download,
                   split, output_csv>>
    /\ UNCHANGED <<envVars, trainerVars>>

(***************************************************************************)
(* evaluating(model, tokenizer, test_path, output_dir), main.py 191-208.   *)
(* A table is [has_text, has_target, rows]; a row is [ID, text, target],   *)
(* target = -1 when the table has no such column.                          *)
(***************************************************************************)
Classes == 0..(num_labels - 1)
Texts == {"t1", "t2"}

RECURSIVE Pow2(_)
Pow2(n) == IF n = 0 THEN 1 ELSE 2 * Pow2(n - 1)

RECURSIVE SumOver(_, _)
SumOver(f, S) ==
    IF S = {} THEN 0
    ELSE LET x == CHOOSE y \in S : TRUE IN f[x] + SumOver(f, S \ {x})

\* torch.nn.Softmax(dim=1), in base 2 to stay in exact arithmetic:
\* positive, summing to 1, strictly increasing in the logit
Softmax(lg) ==
    LET e == [c \in DOMAIN lg |-> Pow2(lg[c])]
        z == SumOver(e, DOMAIN lg)
    IN [c \in DOMAIN lg |-> <<e[c], z>>]

argmax_frac(p) ==
    CHOOSE c \in DOMAIN p :
        \A d \in DOMAIN p : /\ ~FracLess(p[c], p[d])
                            /\ (~FracLess(p[d], p[c]) => c <= d)

\* variant: argmax over dim=0 of the [1 x C] score tensor
predict_dim0(lg) == 0

\* lines 200-203 for one row
predict(lg) == argmax_frac(Softmax(lg))

\* the loop of lines 197-204: preds.extend(pred), one row at a time
RECURSIVE predict_rows(_, _, _, _)
predict_rows(model, rows, i, preds) ==
    IF i > Len(rows) THEN preds
    ELSE predict_rows(model, rows, i + 1,
                      Append(preds, predict(model[rows[i].text])))

\* lines 206-207: dataset_test["target"] = preds; to_csv
evaluating(model, table) ==
    LET preds == predict_rows(model, table.rows, 1, <<>>)
    IN [has_text |-> table.has_text,
        has_target |-> TRUE,
        rows |-> [i \in DOMAIN table.rows |->
                     [table.rows[i] EXCEPT !.target = preds[i]]]]

Evaluating ==
    /\ pc = "evaluating"
    /\ IF dataset_test = None
       THEN /\ Raise("FileNotFoundError", "evaluating")
            /\ UNCHANGED output_csv
       ELSE IF ~Get(dataset_test).has_text /\ Len(Get(dataset_test).rows) > 0
       THEN /\ Raise("KeyError", "evaluating")
            /\ UNCHANGED output_csv
       ELSE /\ output_csv' = Some(evaluating(logits, Get(dataset_test)))
            /\ pc' = "wandb_finish"
            /\ UNCHANGED error
    /\ UNCHANGED <<wandb_run, files, hf_token, local_train, download, split,
                   trained_model, final_metrics>>
    /\ UNCHANGED <<envVars, trainerVars>>

\* wandb.finish(), main.py 370, the last statement of the script
WandbFinish ==
    /\ pc = "wandb_finish"
    /\ wandb_run' = "finished"
    /\ pc' = "exited"
    /\ UNCHANGED <<error, files, hf_token, local_train, download, split,
                   trained_model, final_metrics, output_csv>>
    /\ UNCHANGED <<envVars, trainerVars>>

(***************************************************************************)
(* Inputs.                                                                 *)
(***************************************************************************)
TrainNames == {"train", "clean"}
EnvFiles == {"ok", "missing", "unreadable"}
TestSizes == {<<1, 5>>, <<1, 2>>, <<4, 5>>}

TrainTables ==
    [has_text : BOOLEAN, has_target : BOOLEAN, n : 0..MaxRows]

TestTable(has_text, has_target, texts) ==
    [has_text |-> has_text,
     has_target |-> has_target,
     rows |-> [i \in DOMAIN texts |->
                  [ID |-> i,
                   text |-> IF has_text THEN texts[i] ELSE "",
                   target |-> IF has_target THEN 0 ELSE -1]]]

TextSeqs == UNION {[1..n -> Texts] : n \in 0..MaxTestRows}

TestTables ==
    {TestTable(TRUE, ht, t) : ht \in BOOLEAN, t \in TextSeqs}
    \cup {TestTable(FALSE, ht, [i \in 1..n |-> "t1"]) :
              ht \in BOOLEAN, n \in 0..MaxTestRows}

\* logit vectors: class b at MaxLogit, class a at any level, the rest at 0
LogitRows ==
    {[c \in Classes |-> IF c = a THEN x ELSE IF c = b THEN MaxLogit ELSE 0] :
        a \in Classes, b \in Classes, x \in 0..MaxLogit}

Models == [Texts -> LogitRows]

EvalPreds ==
    UNION {[predictions : [1..n -> [0..MaxClass -> 0..1]],
            labels : [1..n -> 0..MaxClass]] : n \in 1..MaxEvalRows}

\* the samples the whole-pipeline specification runs on
always_class_2 == [t \in Texts |-> [c \in Classes |-> IF c = 2 THEN MaxLogit ELSE 0]]
sample_test == TestTable(TRUE, TRUE, [i \in 1..MaxTestRows |-> "t1"])
sample_eval_pred ==
    [predictions |-> <<[c \in 0..MaxClass |-> IF c = 0 THEN 1 ELSE 0]>>,
     labels |-> <<0>>]

TrainerInit ==
    /\ phase = "Idle"
    /\ epoch = 0
    /\ eval_f1 = <<>>
    /\ checkpoints = {}
    /\ best_metric = None
    /\ best_model_checkpoint = None
    /\ model_weights = 0

(***************************************************************************)
(* The script from wandb.init on, the configuration already read.          *)
(***************************************************************************)
PipelineInit(tables, sizes, envs) ==
    /\ pc = "wandb_init"
    /\ error = NoError
    /\ wandb_run = "none"
    /\ train_file_name \in TrainNames
    /\ files \in SUBSET TrainNames
    /\ env_file \in envs
    /\ hf_token \in BOOLEAN
    /\ local_train = "unchecked"
    /\ download = "no"
    /\ train_csv \in tables
    /\ test_size \in sizes
    /\ split = None
    /\ TrainerInit
    /\ trained_model = None
    /\ eval_pred = sample_eval_pred
    /\ final_metrics = None
    /\ dataset_test \in {None, Some(sample_test)}
    /\ logits = always_class_2
    /\ output_csv = None

Init == PipelineInit(TrainTables, TestSizes, EnvFiles)

Next ==
    \/ WandbInit
    \/ LoadEnvFile
    \/ CheckDataset
    \/ LoadModel
    \/ DataSetting
    \/ TrainBegin
    \/ TrainEpoch
    \/ EvaluateEpoch
    \/ SaveCheckpoint
    \/ LoadBestModel
    \/ EpochFails
    \/ FinalEvaluate
    \/ Evaluating
    \/ WandbFinish

Spec == Init /\ [][Next]_vars

\* The same script on two training tables (one well formed, one without
\* `target'), where trainer.train(), once called, keeps executing: each of
\* its steps is taken unless the process has ended.
SampleTrainTables ==
    {[has_text |-> TRUE, has_target |-> ht, n |-> MaxRows] : ht \in BOOLEAN}

InitLive == PipelineInit(SampleTrainTables, {<<1, 5>>}, {"ok", "missing"})

TrainerNext ==
    \/ TrainBegin
    \/ TrainEpoch
    \/ EvaluateEpoch
    \/ SaveCheckpoint
    \/ LoadBestModel
    \/ EpochFails

LiveSpec == InitLive /\ [][Next]_vars /\ WF_vars(TrainerNext)

(***************************************************************************)
(* evaluating() alone, on every test table and model within the bounds,    *)
(* entered as __main__ enters it at main.py 368 after a complete training. *)
(***************************************************************************)
InitEval ==
    /\ pc = "evaluating"
    /\ error = NoError
    /\ wandb_run = "open"
    /\ train_file_name = "train"
    /\ files = {"train"}
    /\ env_file = "ok"
    /\ hf_token = TRUE
    /\ local_train = "exists"
    /\ download = "no"
    /\ train_csv = [has_text |-> TRUE, has_target |-> TRUE, n |-> MaxRows]
    /\ test_size = <<1, 2>>
    /\ split = Some(<<n_train(train_csv, test_size),
                      n_test(train_csv, test_size)>>)
    /\ phase = "Done"
    /\ epoch = num_train_epochs
    /\ eval_f1 = [e \in Epochs |-> 0]
    /\ checkpoints = Epochs
    /\ best_metric = Some(0)
    /\ best_model_checkpoint = Some(1)
    /\ model_weights = 1
    /\ trained_model = Some(1)
    /\ eval_pred = sample_eval_pred
    /\ final_metrics = Some(compute_metrics_detailed(eval_pred))
    /\ dataset_test \in {None} \cup {Some(t) : t \in TestTables}
    /\ logits \in Models
    /\ output_csv = None

NextEval ==
    \/ Evaluating
    \/ WandbFinish

SpecEval == InitEval /\ [][NextEval]_vars

(***************************************************************************)
(* compute_metrics_detailed alone, on every prediction matrix and label    *)
(* vector within the bounds, called as train() calls it at main.py 181-182 *)
(* once trainer.train() has returned.                                      *)
(***************************************************************************)
InitMetrics ==
    /\ pc = "train"
    /\ error = NoError
    /\ wandb_run = "open"
    /\ train_file_name = "train"
    /\ files = {"train"}
    /\ env_file = "ok"
    /\ hf_token = TRUE
    /\ local_train = "exists"
    /\ download = "no"
    /\ train_csv = [has_text |-> TRUE, has_target |-> TRUE, n |-> MaxRows]
    /\ test_size = <<1, 2>>
    /\ split = Some(<<n_train(train_csv, test_size),
                      n_test(train_csv, test_size)>>)
    /\ phase = "Done"
    /\ epoch = num_train_epochs
    /\ eval_f1 = [e \in Epochs |-> 0]
    /\ checkpoints = Epochs
    /\ best_metric = Some(0)
    /\ best_model_checkpoint = Some(1)
    /\ model_weights = 1
    /\ trained_model = None
    /\ eval_pred \in EvalPreds
    /\ final_metrics = None
    /\ dataset_test = Some(sample_test)
    /\ logits = always_class_2
    /\ output_csv = None

NextMetrics == FinalEvaluate

SpecMetrics == InitMetrics /\ [][NextMetrics]_vars

(***************************************************************************)
(* Properties.                                                             *)
(***************************************************************************)
EpochFailed == error.where = "trainer.train"

\* C1: when train() has returned, the model it returned holds the weights
\* of an epoch whose validation macro-F1 is the highest of all the epochs
\* trained, whether or not that epoch is the last one.
C1_BestModelReturned ==
    trained_model # None =>
        /\ Get(trained_model) \in DOMAIN eval_f1
        /\ \A e \in DOMAIN eval_f1 : eval_f1[e] <= eval_f1[Get(trained_model)]

C1_Witness ==
    /\ trained_model = Some(1)
    /\ Len(eval_f1) = 2
    /\ eval_f1[2] < eval_f1[1]

\* C2: once evaluating() has written output.csv, the file has one row per
\* row of the test table, in the same order, every column but `target' as
\* in the input, and row i's target is a class whose score for row i's text
\* is the largest, whatever `target' held before.
IsArgMax(scores, c) ==
    /\ c \in DOMAIN scores
    /\ \A d \in DOMAIN scores : scores[d] <= scores[c]

C2_OutputRows ==
    output_csv # None =>
        LET out == Get(output_csv)
            inp == Get(dataset_test)
        IN /\ Len(out.rows) = Len(inp.rows)
           /\ out.has_text = inp.has_text
           /\ out.has_target
           /\ \A i \in DOMAIN inp.rows :
                 /\ out.rows[i].ID = inp.rows[i].ID
                 /\ out.rows[i].text = inp.rows[i].text
                 /\ IsArgMax(logits[inp.rows[i].text], out.rows[i].target)

C2_Witness ==
    /\ output_csv # None
    /\ Get(dataset_test).has_target
    /\ Len(Get(output_csv).rows) = 3
    /\ \A i \in 1..3 : Get(output_csv).rows[i].target = 2
    /\ Get(dataset_test).rows[1].text # Get(dataset_test).rows[2].text

\* C3: the detailed metrics have per-class keys for exactly the label
\* values of the ground truth, f1_class_c is the F1 of class c and
\* accuracy_class_c the accuracy over the rows whose true label is c.
C3_PerClassMetrics ==
    final_metrics # None =>
        LET m == Get(final_metrics)
            labels == eval_pred.labels
            preds == [i \in DOMAIN labels |-> argmax(eval_pred.predictions[i])]
        IN /\ {k[2] : k \in {x \in DOMAIN m : x[1] = "f1_class"}}
                  = Range(labels)
           /\ {k[2] : k \in {x \in DOMAIN m : x[1] = "accuracy_class"}}
                  = Range(labels)
           /\ \A c \in Range(labels) :
                 /\ m[<<"f1_class", c>>] = f1_of_class(labels, preds, c)
                 /\ m[<<"accuracy_class", c>>] =
                        accuracy_score(labels, preds,
                                       {i \in DOMAIN labels : labels[i] = c})

\* C4: the Trainer's phases follow Idle, then Training(i), Evaluating(i),
\* Checkpointing(i) for i = 1, 2, then Selecting, then Done, the
\* evaluation of epoch i producing its metrics and the checkpoint of epoch
\* i being saved before the next phase; and a run that has entered train()
\* reaches Done unless an epoch fails.
C4_PhaseStep ==
    \/ /\ phase' = phase
       /\ epoch' = epoch
    \/ /\ phase = "Idle"
       /\ phase' = "Training"
       /\ epoch' = 1
    \/ /\ phase = "Training"
       /\ phase' = "Evaluating"
       /\ epoch' = epoch
    \/ /\ phase = "Evaluating"
       /\ phase' = "Checkpointing"
       /\ epoch' = epoch
       /\ Len(eval_f1') = epoch
    \/ /\ phase = "Checkpointing"
       /\ epoch < 2
       /\ phase' = "Training"
       /\ epoch' = epoch + 1
       /\ epoch \in checkpoints'
    \/ /\ phase = "Checkpointing"
       /\ epoch = 2
       /\ phase' = "Selecting"
       /\ epoch' = epoch
       /\ epoch \in checkpoints'
    \/ /\ phase = "Selecting"
       /\ phase' = "Done"
       /\ epoch' = epoch

C4_PhaseOrder ==
    /\ [][C4_PhaseStep]_vars
    /\ (pc = "train") ~> (phase = "Done" \/ EpochFailed)

C4_Witness ==
    /\ phase = "Done"
    /\ epoch = 2
    /\ Len(eval_f1) = 2

\* C5: after a failure inside an epoch the process has ended with that
\* exception: nothing more runs, no later epoch has started, train() has
\* returned nothing, the inference step did not run and output.csv is not
\* written.
C5_EpochFailureAborts ==
    EpochFailed =>
        /\ pc = "crashed"
        /\ ~ENABLED Next
        /\ InEpoch
        /\ Len(eval_f1) <= epoch
        /\ trained_model = None
        /\ output_csv = None

C5_Witness ==
    /\ EpochFailed
    /\ epoch = 1
    /\ phase = "Evaluating"

\* C6: at every point the persisted checkpoints are those of the 2 most
\* recent epochs saved so far, so there are never more than 2.
LastSaved ==
    IF phase = "Idle" THEN 0 ELSE IF InEpoch THEN epoch - 1 ELSE epoch

C7_RunClosedOnExit ==
    (pc \in {"crashed", "exited"} /\ wandb_run # "none")
        => wandb_run = "finished"

\* C8 (as stated): data_setting fails with DataFormatError (KeyError) when
\* the table lacks `text' or `target', fails with EmptyDatasetError
\* (ValueError) when the split leaves no rows, and returns no collections
\* in either case.
LacksColumn == ~train_csv.has_text \/ ~train_csv.has_target
SplitEmpty ==
    n_train(train_csv, test_size) = 0 \/ n_test(train_csv, test_size) = 0

DataSettingFailed(kind) ==
    /\ pc = "crashed"
    /\ error = [kind |-> kind, where |-> "data_setting"]

\* data_setting has read the table and has ended
DataSettingRan ==
    \/ pc \in {"train", "evaluating", "wandb_finish", "exited"}
    \/ /\ pc = "crashed"
       /\ error.where \in {"data_setting", "trainer.train", "evaluating"}
       /\ ~(error.where = "data_setting" /\ error.kind = "FileNotFoundError")

C8_Original ==
    DataSettingRan =>
        /\ LacksColumn => DataSettingFailed("KeyError")
        /\ SplitEmpty => DataSettingFailed("ValueError")
        /\ (LacksColumn \/ SplitEmpty) => split = None

\* C8 (amended): the split is made first, so data_setting fails with
\* EmptyDatasetError whenever the split leaves no rows, with
\* DataFormatError when a column is missing and the split leaves rows, and
\* returns no collections in either case.
C8_DataSettingErrors ==
    DataSettingRan =>
        /\ SplitEmpty => DataSettingFailed("ValueError")
        /\ (LacksColumn /\ ~SplitEmpty) => DataSettingFailed("KeyError")
        /\ (LacksColumn \/ SplitEmpty) => split = None

C8_Witness ==
    /\ DataSettingFailed("KeyError")
    /\ ~train_csv.has_text
    /\ train_csv.n = MaxRows

\* C9 (as stated): with the .env file missing or unreadable, load_env_file
\* does not raise, and with no credentials the download of check_dataset is
\* not attempted.
C9_Original ==
    env_file # "ok" =>
        /\ error.where # "load_env_file"
        /\ ~hf_token => download = "no"

\* C9 (amended): with the .env file missing or unreadable, load_env_file
\* does not raise and the run continues; check_dataset attempts the
\* download exactly when ../data/train.csv does not exist, with or without
\* credentials.
C9_EnvLoadNonFatal ==
    env_file # "ok" =>
        /\ error.where # "load_env_file"
        /\ (download # "no") = (local_train = "absent")

C9_Witness ==
    /\ env_file = "missing"
    /\ ~hf_token
    /\ download = "done"
    /\ pc = "exited"

\* C10: once check_dataset has returned without error, the file that
\* data_setting reads, ../data/{train_file_name}.csv, exists.
C10_TrainFileExists ==
    pc \in {"load_model", "data_setting"} => train_file_name \in files

=============================================================================
